---- MODULE Spec2Model ----
(***************************************************************************)
(* Group boss battle engine of Studyrpg2: the attack handler of            *)
(* app/routers/group_boss_battles.py with the reward crediting of          *)
(* app/routers/leveling_router.py, run by several concurrent requests.     *)
(*                                                                         *)
(* Every request owns one AsyncSession (app/database.py).  A session is    *)
(* modelled as an ORM unit of work: a row is loaded into the session the   *)
(* first time a SELECT returns it and later SELECTs of the same row give   *)
(* back the loaded object with its loaded values; attribute assignments    *)
(* stay in the session until a commit writes the changed columns, as       *)
(* absolute values, to the database; an exception leaving the transaction  *)
(* block drops what was not committed.  Requests interleave at awaits.     *)
(*                                                                         *)
(* The battle stream is the WebSocket handler of the same router with the  *)
(* router's ConnectionManager (app/connection_manager.py): one handler per *)
(* connection, interleaving with the others at every await.                *)
(*                                                                         *)
(* Beside them: the award endpoint of the leveling router with the other   *)
(* handlers that write a user's xp, level or skill points (admin, quests,  *)
(* pomodoro, skills, registration), and the list-based ConnectionManager   *)
(* of src/main.py.                                                         *)
(*                                                                         *)
(* Two readings of the battle endpoints are kept apart.  Spec, StreamSpec  *)
(* and TermsSpec run the handlers line by line, for a dependency that      *)
(* hands them the token's user; their steps include every step the source  *)
(* takes, and only invariants are checked over them.  BuildSpec and        *)
(* ClosedSpec hold the steps the source takes and no others: in the        *)
(* source as it stands get_current_user_optional returns None for every    *)
(* token, so create, join and attack answer 401, the stream is closed with *)
(* 1008, and the older endpoints of src/main.py and                        *)
(* app/group_boss_battles.py raise before they read a row.  A failure of   *)
(* a battle endpoint is shown by steps of that second kind alone.  No      *)
(* handler of this build stores a battle, a participant link or a          *)
(* completion: the rows of the initial states are the stored data the      *)
(* handlers' queries are written for.                                      *)
(***************************************************************************)
EXTENDS Integers, Sequences, FiniteSets, TLC

\* ------------------------------------------------------------------ bounds
MaxUsers == 2
MaxCalls == 2
MaxDamage == 3
MaxHealth == 3
MaxConns == 2
MaxFrames == 2
MaxStreamCalls == 1
MaxJoins == 2
MaxLegacyJoins == 1
MaxAwards == 2
MaxWrites == 2
MaxLegacyActions == 1
MaxLegacyConns == 2

Users == 1..MaxUsers
Calls == 1..MaxCalls
\* WebSocket connections to /{battle_id}/ws, one handler each.
Conns == 1..MaxConns
\* Attack requests that run beside the battle stream.
StreamCalls == 1..MaxStreamCalls
\* Requests to POST /{battle_id}/join.
Joins == 1..MaxJoins
\* Requests to POST /group_boss_battles/{battle_id}/join of src/main.py.
LegacyJoins == 1..MaxLegacyJoins
\* WebSockets opened on the endpoints of src/main.py.
LegacyConns == 1..MaxLegacyConns
\* The key websocket_notifications registers under, and the absent sender
\* (sender=None).
LegacyKey == "notifications"
NoSender == 0
\* Requests to POST /award of the leveling router.
Awards == 1..MaxAwards
\* Request bodies: the damage field of the JSON body before validation.
DamageInputs == 0..MaxDamage
\* Damage value of the frames and requests beside the battle stream: a hit
\* that defeats the boss.
StreamDamageInputs == {MaxDamage}


\* ------------------------------------------------------- program constants
XpPerLevel == 100
\* Request bodies of POST /award: the xp field.
XpInputs == {0, XpPerLevel}
DefaultXp == 0
\* skill_points of a row that register_user inserts.
RegisterSkillPoints == 100
\* The stored quest's reward_xp and reward_skill_points, the stored pomodoro
\* session's duration in minutes and the stored skill's cost.
QuestRewardXp == 50
QuestRewardSkillPoints == 2
PomodoroDuration == 25
SkillCost == 1
\* complete_pomodoro_session pays duration * 5.
PomodoroXpPerMinute == 5
DefaultSkillPoints == 0
DefaultLevel == 1

\* Reward terms of the battle row (GroupBossBattleBase: both ge=0).
RewardXpChoices == {0, 150}
RewardSkillPoints == 2
\* Length of the battle's reward_items list.
RewardItemCount == 1
\* Per-hit damage ceiling of the design document (section 3, section 4.2).
PerHitCeiling == 2

\* perform_battle_action of app/group_boss_battles.py: damage of the action
\* types and what the completing action writes into the battle row.
LegacyAttackDamage == 50
LegacySpecialDamage == 120
LegacyScore == 100
LegacyRewardXp == 250
LegacyRewardSkillPoints == 5
LegacyRewardItemCount == 2
ActionTypes == {"attack", "special", "heal"}

\* WebSocket close codes used by websocket_group_boss_battle.
PolicyViolation == 1008
UnsupportedData == 1003

\* Keys of the router's ConnectionManager: f"battle_{battle_id}" of the stream
\* and f"group_{battle.group_id}" of the REST handlers' broadcasts.
BattleKey == "battle_1"
GroupKey == "group_1"

NoRow == [xp |-> -1, level |-> -1, skill_points |-> -1]

\* xp_update.xp of the admin's PUT /users/{user_id}/xp: any integer but 0,
\* which changes nothing.
AdminXpInputs == {-XpPerLevel, XpPerLevel}
NoBroadcast ==
    [active |-> FALSE, sender |-> 0, index |-> 0, orphan |-> FALSE, waiting |-> 0,
     raised |-> FALSE]
NoTermsLoaded == [reward_xp |-> 0, reward_skill_points |-> 0]
PassedNull == "null"
PassedTrue == "true"

VARIABLES
    battle,        \* committed group_boss_battle row
    reward_xp,     \* committed reward_xp column of the row
    reward_skill_points, \* committed reward_skill_points column of the row
    reward_items,  \* number of names in the committed reward_items JSON list
    users,         \* committed user rows: [xp, level, skill_points]
    present,       \* ids whose user row exists
    participants,  \* user ids with a user_group_boss_battle link
    members,       \* user ids with a user_study_group link to the battle's group
    pc,            \* position of each request in attack_group_boss
    cuser,         \* current_user.id of the request
    damage,        \* attack.damage of the request
    sbattle,       \* the session's GroupBossBattle object
    sdirty,        \* its attributes changed since the last commit
    ucache,        \* the session's User objects (NoRow: not loaded)
    udirty,        \* users whose skill_points changed since the last commit
    todo,          \* participants the reward loop has still to credit
    sterms,        \* reward terms of the session's GroupBossBattle object
    old_total_xp,  \* award_xp's local
    result,        \* HTTP outcome of the request
    completers,    \* requests that executed the completion branch
    wrote,         \* requests that committed a change
    published,     \* battle_update snapshots handed to the broadcast
    closedAtStart, \* requests that arrived when is_completed was committed true
    active_connections, \* manager.active_connections: key -> set of connections
    wspc,          \* position of each connection's handler
    wsuser,        \* user the connection's token names (0: nobody)
    link,          \* transport of the connection: none, open, gone, closed
    closecode,     \* close code the handler sent (0: none)
    pending,       \* broadcast_to_group: connections of the snapshot not yet sent to
    inbox,         \* frames delivered to each connection
    frames,        \* number of inbound frames received so far
    lastrecv,      \* the inbound frame received last, and its connection
    sendFailed,    \* connections a failed send_text has removed
    snapshot,      \* broadcast_to_group: the list(...) of the handler's last broadcast
    got,           \* how often that broadcast's message was delivered to each connection
    linkcount,     \* rows of user_group_boss_battle for the battle, per user
    jpc,           \* position of each request in join_group_boss_battle
    juser,         \* current_user.id of the join request
    jresult,       \* HTTP outcome of the join request
    jlate,         \* join requests that arrived when is_completed was committed true
    jhad,          \* join requests that arrived when their caller held a link
    ljpc,          \* position of each join request of src/main.py
    ljuser,        \* its current_user
    ljresult,      \* its HTTP outcome
    apc,           \* position of each request in award_user_xp
    auser,         \* current_user.id of the award request
    axp,           \* xp_data.xp of the award request
    aold,          \* old_total_xp read by the award request
    aresult,       \* HTTP outcome of the award request
    aresponse,     \* new_total_xp of the award request's response
    wrpc,          \* position of the request that runs in one of the other
                   \* handlers writing user rows (idle: none runs)
    wruser,        \* the user that request is about
    wrload,        \* the User object the request's session holds
    wrxp,          \* xp_update.xp of an admin's request
    wrresult,      \* HTTP outcome of the last of these requests
    wrcount,       \* number of these requests so far
    quest_completed,    \* per user, is_completed of the user's quest
    pomodoro_completed, \* per user, is_completed of the user's pomodoro session
    user_skill,    \* users with a user_skill row for the skill
    lactions,      \* number of perform_battle_action requests so far
    lresult,       \* HTTP outcome of the last perform_battle_action request
    bupc,          \* position of the request in update_group_boss_battle
    buuser,        \* its current_user
    buresult,      \* its HTTP outcome
    lconnections,  \* active_connections of the ConnectionManager of src/main.py:
                   \* key -> list of websockets
    lws,           \* state of each of those websockets
    liter,         \* the running broadcast: its sender, the element whose send
                   \* it waits for, whether it ended by raising, the list iterator's
                   \* index, and whether the iterated list left the dict
    lgot,          \* connections the running broadcast has sent the message to
    lstart,        \* the key's list when the running broadcast started
    lquiet         \* no handler has changed the list since the broadcast started

vars == <<battle, sterms, reward_xp, reward_skill_points, reward_items,
          bupc, buuser, buresult, users, present, participants, members, pc, cuser,
          damage, sbattle, sdirty, ucache, udirty, todo, old_total_xp, result,
          completers, wrote, published, closedAtStart, active_connections,
          wspc, wsuser, link, closecode, pending, inbox, frames, lastrecv,
          sendFailed, snapshot, got, linkcount, jpc, juser, jresult,
          jlate, jhad, ljpc, ljuser, ljresult, apc, auser, axp, aold, aresult, aresponse,
          wrpc, wruser, wrload, wrxp, wrresult, wrcount, quest_completed,
          pomodoro_completed, user_skill, lactions, lresult, lconnections,
          lws, liter, lgot, lstart, lquiet>>

attackVars == <<pc, cuser, damage, sbattle, sterms, sdirty, ucache, udirty, todo,
                old_total_xp, result, completers, wrote, published,
                closedAtStart>>

streamVars == <<active_connections, wspc, wsuser, link, closecode, pending,
                inbox, frames, lastrecv, sendFailed, snapshot, got>>

legacyJoinVars == <<ljpc, ljuser, ljresult>>

joinVars == <<linkcount, jpc, juser, jresult, jlate, jhad,
             legacyJoinVars>>

\* What the attack handler and the battle stream never touch.
writerVars == <<wrpc, wruser, wrload, wrxp, wrresult, wrcount, quest_completed,
               pomodoro_completed, user_skill>>

awardVars == <<apc, auser, axp, aold, aresult, aresponse, writerVars>>

managerVars == <<lconnections, lws, liter, lgot, lstart, lquiet>>

updateVars == <<bupc, buuser, buresult>>

legacyVars == <<lactions, lresult, managerVars, updateVars>>

sideVars == <<joinVars, awardVars, legacyVars>>

\* The reward terms of the battle row.
rewardVars == <<reward_xp, reward_skill_points, reward_items>>

dbVars == <<battle, rewardVars, users, present, participants, members>>

\* ------------------------------------------------------------ leveling
calculate_xp_for_level(level) ==
    IF level <= 1 THEN 0 ELSE (level - 1) * XpPerLevel

RECURSIVE LevelLoop(_, _)
LevelLoop(total_xp, level) ==
    IF total_xp >= calculate_xp_for_level(level + 1)
    THEN LevelLoop(total_xp, level + 1)
    ELSE level

get_level_from_xp(total_xp) ==
    IF total_xp < 0 THEN 1 ELSE LevelLoop(total_xp, 1)

\* ------------------------------------------------------------ helpers
RECURSIVE SumDamage(_)
SumDamage(S) ==
    IF S = {} THEN 0
    ELSE LET c == CHOOSE x \in S : TRUE IN damage[c] + SumDamage(S \ {c})

Orders(S) ==
    {q \in [1..Cardinality(S) -> S] : \A i, j \in 1..Cardinality(S) : i # j => q[i] # q[j]}

\* The stored row with the id of the request's path.
StoredBattle(c) == battle

\* Session.commit: the changed columns of the session's objects are written.
FlushBattle(c) ==
    [f \in DOMAIN battle |->
        IF f \in sdirty[c] THEN sbattle[c][f] ELSE StoredBattle(c)[f]]

\* The commit's write reaches the row the session's battle object came from.
StoreBattle(c) == battle' = FlushBattle(c)

FlushUsers(c, base) ==
    [u \in Users |->
        IF u \in udirty[c] /\ u \in present
        THEN [base[u] EXCEPT !.skill_points = ucache[c][u].skill_points]
        ELSE base[u]]

NoUsersLoaded == [u \in Users |-> NoRow]

NoBattleLoaded == [current_health |-> 0, score |-> 0, is_completed |-> FALSE,
                   passed |-> PassedNull]

\* get_async_session: the request ends, what was not committed is dropped
\* and the session is closed.
CloseSession(c, code) ==
    /\ pc' = [pc EXCEPT ![c] = "done"]
    /\ result' = [result EXCEPT ![c] = code]
    /\ sbattle' = [sbattle EXCEPT ![c] = NoBattleLoaded]
    /\ sdirty' = [sdirty EXCEPT ![c] = {}]
    /\ ucache' = [ucache EXCEPT ![c] = NoUsersLoaded]
    /\ udirty' = [udirty EXCEPT ![c] = {}]
    /\ todo' = [todo EXCEPT ![c] = <<>>]
    /\ old_total_xp' = [old_total_xp EXCEPT ![c] = 0]

\* ------------------------------------------------------------ ConnectionManager
\* The dict of sets is a function whose domain is the set of keys present.
Subscribers(reg, key) == IF key \in DOMAIN reg THEN reg[key] ELSE {}

Registered(reg) == UNION {reg[k] : k \in DOMAIN reg}

\* connect, after websocket.accept(): the key's set is created when missing
\* and the connection is added to it.
connect(reg, websocket, key) ==
    [k \in DOMAIN reg \cup {key} |-> IF k = key
                                     THEN Subscribers(reg, key) \cup {websocket}
                                     ELSE reg[k]]

\* disconnect without the removal of a key whose set became empty.
disconnectKeepsKey(reg, websocket, key) ==
    IF key \in DOMAIN reg
    THEN [reg EXCEPT ![key] = @ \ {websocket}]
    ELSE reg

\* disconnect: discard the connection, delete the key when its set is empty.
disconnect(reg, websocket, key) ==
    IF key \in DOMAIN reg
    THEN IF reg[key] \ {websocket} = {}
         THEN [k \in DOMAIN reg \ {key} |-> reg[k]]
         ELSE [reg EXCEPT ![key] = @ \ {websocket}]
    ELSE reg

\* The except clause of broadcast_to_group without its disconnect.
OnSendFailureIgnored(reg, connection, group_key) == reg

\* The except clause of broadcast_to_group: the connection whose send_text
\* raised is disconnected.
OnSendFailure(reg, connection, group_key) == disconnect(reg, connection, group_key)

\* send_text succeeds on an open transport and raises on any other.
CanSend(connection) == link[connection] = "open"

\* Outbound frames.
BattleUpdate(b) == [type |-> "battle_update", battle |-> b]

ChatMessage(user_id) == [type |-> "chat_message", user_id |-> user_id]

ErrorMessage == [type |-> "error"]

\* Inbound frames: the JSON object's type and damage fields; "malformed" is a
\* frame receive_json cannot decode.
FrameInputs ==
    {[type |-> t, damage |-> 0] : t \in {"chat_message", "ping", "malformed"}}
    \cup {[type |-> "attack", damage |-> d] : d \in StreamDamageInputs}

NoFrame == [conn |-> 0, type |-> "none", damage |-> 0]

RECURSIVE RemoveAll(_, _, _)
RemoveAll(reg, failed, key) ==
    IF failed = {} THEN reg
    ELSE LET t == CHOOSE x \in failed : TRUE
         IN RemoveAll(OnSendFailure(reg, t, key), failed \ {t}, key)

\* broadcast_to_group called by a REST handler: every connection of the key's
\* snapshot is sent the message; a connection whose send raises is removed.
PublishTo(key, message) ==
    LET listed == Subscribers(active_connections, key)
        failed == {t \in listed : ~CanSend(t)}
    IN /\ inbox' = [w \in Conns |-> IF w \in listed \ failed
                                     THEN Append(inbox[w], message)
                                     ELSE inbox[w]]
       /\ active_connections' = RemoveAll(active_connections, failed, key)
       /\ sendFailed' = sendFailed \cup failed

\* ------------------------------------------------------------ initial state
\* The battle row as create_group_boss_battle stores it: full health, no
\* score, is_completed at its column default, passed NULL.
OpenBattle ==
    [current_health |-> MaxHealth, score |-> 0,
     is_completed |-> FALSE, passed |-> PassedNull]

\* The row as the completion branch of attack_group_boss (lines 369-373)
\* leaves it.
CompletedBattle ==
    [current_health |-> 0, score |-> MaxHealth,
     is_completed |-> TRUE, passed |-> PassedTrue]

\* The tables with the battle row `row`, its group and the users, and no
\* request under way.
InitRows(row) ==
    /\ battle = row
    /\ reward_xp \in RewardXpChoices
    /\ reward_skill_points = RewardSkillPoints
    /\ reward_items = RewardItemCount
    /\ users = [u \in Users |-> [xp |-> DefaultXp, level |-> DefaultLevel,
                                 skill_points |-> DefaultSkillPoints]]
    /\ \E gone \in SUBSET Users : Cardinality(gone) <= 1 /\ present = Users \ gone
    /\ participants \in SUBSET Users
    /\ members \in SUBSET Users
    /\ pc = [c \in Calls |-> "idle"]
    /\ cuser = [c \in Calls |-> 0]
    /\ damage = [c \in Calls |-> 0]
    /\ sbattle = [c \in Calls |-> NoBattleLoaded]
    /\ sterms = [c \in Calls |-> NoTermsLoaded]
    /\ sdirty = [c \in Calls |-> {}]
    /\ ucache = [c \in Calls |-> NoUsersLoaded]
    /\ udirty = [c \in Calls |-> {}]
    /\ todo = [c \in Calls |-> <<>>]
    /\ old_total_xp = [c \in Calls |-> 0]
    /\ result = [c \in Calls |-> "none"]
    /\ completers = {}
    /\ wrote = {}
    /\ published = <<>>
    /\ closedAtStart = {}
    /\ active_connections = <<>>
    /\ wspc = [w \in Conns |-> "new"]
    /\ wsuser = [w \in Conns |-> 0]
    /\ link = [w \in Conns |-> "none"]
    /\ closecode = [w \in Conns |-> 0]
    /\ pending = [w \in Conns |-> {}]
    /\ inbox = [w \in Conns |-> <<>>]
    /\ frames = 0
    /\ lastrecv = NoFrame
    /\ sendFailed = {}
    /\ snapshot = [w \in Conns |-> {}]
    /\ got = [w \in Conns |-> [t \in Conns |-> 0]]
    /\ linkcount = [u \in Users |-> IF u \in participants THEN 1 ELSE 0]
    /\ jpc = [j \in Joins |-> "idle"]
    /\ juser = [j \in Joins |-> 0]
    /\ jresult = [j \in Joins |-> "none"]
    /\ jlate = {}
    /\ jhad = {}
    /\ ljpc = [l \in LegacyJoins |-> "idle"]
    /\ ljuser = [l \in LegacyJoins |-> 0]
    /\ ljresult = [l \in LegacyJoins |-> "none"]
    /\ apc = [a \in Awards |-> "idle"]
    /\ auser = [a \in Awards |-> 0]
    /\ axp = [a \in Awards |-> 0]
    /\ aold = [a \in Awards |-> 0]
    /\ aresult = [a \in Awards |-> "none"]
    /\ aresponse = [a \in Awards |-> 0]
    /\ wrpc = "idle"
    /\ wruser = 0
    /\ wrload = NoRow
    /\ wrxp = 0
    /\ wrresult = "none"
    /\ wrcount = 0
    /\ quest_completed = [u \in Users |-> FALSE]
    /\ pomodoro_completed = [u \in Users |-> FALSE]
    /\ user_skill = {}
    /\ lactions = 0
    /\ lresult = "none"
    /\ bupc = "idle"
    /\ buuser = 0
    /\ buresult = "none"
    /\ lconnections = <<>>
    /\ lws = [w \in LegacyConns |-> "new"]
    /\ liter = NoBroadcast
    /\ lgot = {}
    /\ lstart = <<>>
    /\ lquiet = TRUE

Init == InitRows(OpenBattle)

\* ------------------------------------------------------------ attack_group_boss
\* The request arrives: the body is validated against BossAttack (damage >= 1,
\* else 422), and the handler runs as written, for a
\* get_current_user_optional that returns the token's user and has loaded the
\* caller's User row into the session.  AttackUnauthorized is the request as
\* the dependency of this build answers it.
AttackRequest(c, u, d) ==
    /\ pc[c] = "idle"
    /\ u \in present
    /\ cuser' = [cuser EXCEPT ![c] = u]
    /\ damage' = [damage EXCEPT ![c] = d]
    /\ IF d < 1
       THEN /\ pc' = [pc EXCEPT ![c] = "done"]
            /\ result' = [result EXCEPT ![c] = "e422"]
            /\ UNCHANGED <<ucache, closedAtStart>>
       ELSE /\ pc' = [pc EXCEPT ![c] = "read"]
            /\ ucache' = [ucache EXCEPT ![c][u] = users[u]]
            /\ closedAtStart' = IF battle.is_completed
                                THEN closedAtStart \cup {c} ELSE closedAtStart
            /\ UNCHANGED result
    /\ UNCHANGED <<dbVars, sbattle, sdirty, udirty, todo, old_total_xp,
                   completers, wrote, published>>
    /\ UNCHANGED streamVars
    /\ UNCHANGED sideVars
    /\ UNCHANGED sterms

\* A request whose body fails the validation of BossAttack (damage >= 1):
\* the 422 is sent before the handler is called.
AttackInvalid(c, u, d) == d < 1 /\ AttackRequest(c, u, d)

\* The 401 test of lines 331-334 placed below the hit of lines 367-373 and
\* its commit.
AttackUnauthorizedLate(c, u, d) ==
    /\ pc[c] = "idle"
    /\ u \in present
    /\ d >= 1
    /\ cuser' = [cuser EXCEPT ![c] = u]
    /\ damage' = [damage EXCEPT ![c] = d]
    /\ pc' = [pc EXCEPT ![c] = "done"]
    /\ result' = [result EXCEPT ![c] = "e401"]
    /\ closedAtStart' = IF battle.is_completed
                        THEN closedAtStart \cup {c} ELSE closedAtStart
    /\ battle' = [battle EXCEPT !.current_health = IF @ - d <= 0 THEN 0 ELSE @ - d,
                                !.score = @ + d]
    /\ wrote' = wrote \cup {c}
    /\ UNCHANGED <<rewardVars, users, present, participants, members>>
    /\ UNCHANGED <<sbattle, sterms, sdirty, ucache, udirty, todo,
                   old_total_xp, completers, published>>
    /\ UNCHANGED streamVars
    /\ UNCHANGED sideVars

\* The request as the dependency of app/routers/auth.py answers it:
\* get_current_user_optional (lines 200-218) calls get_current_user(creds, db),
\* whose parameters are (request, credentials, db); the session lands in
\* credentials, db.scheme raises inside the function's own try and None is
\* returned for every token: current_user is None.  A body that passes
\* validation then meets the 401 of line 333 before any SELECT.  cuser keeps
\* the user u the token names.
AttackUnauthorized(c, u, d) ==
    /\ pc[c] = "idle"
    /\ u \in present
    /\ d >= 1
    /\ cuser' = [cuser EXCEPT ![c] = u]
    /\ damage' = [damage EXCEPT ![c] = d]
    /\ pc' = [pc EXCEPT ![c] = "done"]
    /\ result' = [result EXCEPT ![c] = "e401"]
    /\ closedAtStart' = IF battle.is_completed
                        THEN closedAtStart \cup {c} ELSE closedAtStart
    /\ UNCHANGED <<dbVars, sbattle, sterms, sdirty, ucache, udirty, todo,
                   old_total_xp, completers, wrote, published>>
    /\ UNCHANGED streamVars
    /\ UNCHANGED sideVars

\* select(GroupBossBattle).where(id == battle_id, is_completed == False)
BattleOpenRow(row) == IF row.is_completed THEN {} ELSE {row}

\* The reward columns of the stored row, as a SELECT or refresh loads them.
StoredTerms == [reward_xp |-> reward_xp, reward_skill_points |-> reward_skill_points]

AttackReadBattle(c) ==
    /\ pc[c] = "read"
    /\ IF BattleOpenRow(StoredBattle(c)) = {}
       THEN CloseSession(c, "e404") /\ UNCHANGED sterms
       ELSE /\ sbattle' = [sbattle EXCEPT ![c] = StoredBattle(c)]
            /\ sterms' = [sterms EXCEPT ![c] = StoredTerms]
            /\ pc' = [pc EXCEPT ![c] = "check"]
            /\ UNCHANGED <<result, sdirty, ucache, udirty, todo, old_total_xp>>
    /\ UNCHANGED <<dbVars, cuser, damage, completers, wrote, published,
                   closedAtStart>>
    /\ UNCHANGED streamVars
    /\ UNCHANGED sideVars

\* verify_group_member: a user_study_group row links the user to the group.
verify_group_member(user_id) == user_id \in members

\* The participant check skipped.
HasParticipantLinkSkipped(user_id) == TRUE

\* select(UserGroupBossBattle).where(battle id, user id) ... first()
HasParticipantLink(user_id) == user_id \in participants

\* Lines 348-352: the membership SELECT, 403 for a caller who is not a member
\* of the group.
AttackCheck(c) ==
    /\ pc[c] = "check"
    /\ IF ~verify_group_member(cuser[c])
       THEN CloseSession(c, "e403")
       ELSE /\ pc' = [pc EXCEPT ![c] = "link"]
            /\ UNCHANGED <<result, sbattle, sdirty, ucache, udirty, todo,
                           old_total_xp>>
    /\ UNCHANGED <<dbVars, cuser, damage, completers, wrote, published,
                   closedAtStart>>
    /\ UNCHANGED streamVars
    /\ UNCHANGED sideVars
    /\ UNCHANGED sterms

\* Lines 354-363: the SELECT of the caller's participant link, 403 for a
\* caller without one.
AttackCheckLink(c) ==
    /\ pc[c] = "link"
    /\ IF ~HasParticipantLink(cuser[c])
       THEN CloseSession(c, "e403")
       ELSE /\ pc' = [pc EXCEPT ![c] = "begin"]
            /\ UNCHANGED <<result, sbattle, sdirty, ucache, udirty, todo,
                           old_total_xp>>
    /\ UNCHANGED <<dbVars, cuser, damage, completers, wrote, published,
                   closedAtStart>>
    /\ UNCHANGED streamVars
    /\ UNCHANGED sideVars
    /\ UNCHANGED sterms

\* Lines 367-373 without the reset of a health below zero.
HitUnclamped(b, d) ==
    LET h == b.current_health - d
        s == b.score + d
    IN IF h <= 0
       THEN [current_health |-> h, score |-> s, is_completed |-> TRUE,
             passed |-> PassedTrue]
       ELSE [current_health |-> h, score |-> s, is_completed |-> b.is_completed,
             passed |-> b.passed]

\* Lines 367-373 on the session's battle object.
Hit(b, d) ==
    LET h == b.current_health - d
        s == b.score + d
    IN IF h <= 0
       THEN [current_health |-> 0, score |-> s, is_completed |-> TRUE,
             passed |-> PassedTrue]
       ELSE [current_health |-> h, score |-> s, is_completed |-> b.is_completed,
             passed |-> b.passed]

\* The attributes the unit of work finds changed against the loaded values.
Changed(old, new) == {f \in DOMAIN old : old[f] # new[f]}

\* async with db.begin() as written, for a session on which the call opens
\* the transaction: the hit, and on completion the SELECT of the links.  On
\* the session of this handler the source's own outcome is AttackBeginRaises.
AttackBegin(c) ==
    /\ pc[c] = "begin"
    /\ LET nb == Hit(sbattle[c], damage[c]) IN
        /\ sbattle' = [sbattle EXCEPT ![c] = nb]
        /\ sdirty' = [sdirty EXCEPT ![c] = Changed(sbattle[c], nb)]
        /\ IF sbattle[c].current_health - damage[c] <= 0
           THEN /\ completers' = completers \cup {c}
                /\ \E q \in Orders(participants) :
                      todo' = [todo EXCEPT ![c] = q]
                /\ pc' = [pc EXCEPT ![c] =
                            IF participants = {} THEN "commit" ELSE "award"]
           ELSE /\ pc' = [pc EXCEPT ![c] = "commit"]
                /\ UNCHANGED <<completers, todo>>
    /\ UNCHANGED <<dbVars, cuser, damage, ucache, udirty, old_total_xp, result,
                   wrote, published, closedAtStart>>
    /\ UNCHANGED streamVars
    /\ UNCHANGED sideVars
    /\ UNCHANGED sterms

\* db.begin() is called on a session whose SELECTs (lines 337, 26 and 355)
\* have already begun a transaction: it raises, the handler's except clause
\* answers 500 and nothing was changed.
AttackBeginRaises(c) ==
    /\ pc[c] = "begin"
    /\ CloseSession(c, "e500")
    /\ UNCHANGED <<dbVars, cuser, damage, completers, wrote, published,
                   closedAtStart>>
    /\ UNCHANGED streamVars
    /\ UNCHANGED sideVars
    /\ UNCHANGED sterms

\* award_xp up to get_user_xp, for the next participant of the loop.
AwardGetXp(c) ==
    /\ pc[c] = "award"
    /\ LET u == Head(todo[c]) IN
        IF sterms[c].reward_xp <= 0
        THEN CloseSession(c, "e400")
        ELSE IF u \notin present
        THEN CloseSession(c, "e500")
        ELSE /\ ucache' = [ucache EXCEPT ![c][u] =
                             IF @ = NoRow THEN users[u] ELSE @]
             /\ old_total_xp' = [old_total_xp EXCEPT ![c] = ucache'[c][u].xp]
             /\ pc' = [pc EXCEPT ![c] = "update"]
             /\ UNCHANGED <<result, sbattle, sdirty, udirty, todo>>
    /\ UNCHANGED <<dbVars, cuser, damage, completers, wrote, published,
                   closedAtStart>>
    /\ UNCHANGED streamVars
    /\ UNCHANGED sideVars
    /\ UNCHANGED sterms

\* update_user_xp_and_level: the UPDATE of xp and level, then db.commit(),
\* which also writes what the session holds changed.
UpdateUserXpAndLevel(c) ==
    /\ pc[c] = "update"
    /\ LET u == Head(todo[c])
           new_total_xp == old_total_xp[c] + sterms[c].reward_xp
           new_level == get_level_from_xp(new_total_xp)
           flushed == FlushUsers(c, users)
       IN /\ users' = IF u \in present
                      THEN [flushed EXCEPT ![u].xp = new_total_xp,
                                           ![u].level = new_level]
                      ELSE flushed
          /\ ucache' = [ucache EXCEPT ![c][u].xp = new_total_xp,
                                      ![c][u].level = new_level]
    /\ StoreBattle(c)
    /\ sdirty' = [sdirty EXCEPT ![c] = {}]
    /\ udirty' = [udirty EXCEPT ![c] = {}]
    /\ old_total_xp' = [old_total_xp EXCEPT ![c] = 0]
    /\ wrote' = wrote \cup {c}
    /\ pc' = [pc EXCEPT ![c] = "skill"]
    /\ UNCHANGED <<rewardVars, present, participants, members, cuser, damage,
                   sbattle, todo, result, completers, published, closedAtStart>>
    /\ UNCHANGED streamVars
    /\ UNCHANGED sideVars
    /\ UNCHANGED sterms

\* update_user_xp_and_level with the UPDATE or its commit raising: lines
\* 78-81 roll the session back, which drops the hit and expires the session's
\* objects, and return False; award_xp returns its response all the same.
\* The loop goes on to lines 382-388, where user_battle.user_id and
\* battle.reward_skill_points belong to objects the rollback expired; an
\* AsyncSession cannot reload them outside an awaited call, the access raises
\* and the handler's except clause answers 500.  Nothing of the request is
\* stored after the failure.
UpdateUserXpAndLevelFails(c) ==
    /\ pc[c] = "update"
    /\ CloseSession(c, "e500")
    /\ UNCHANGED <<dbVars, cuser, damage, completers, wrote, published,
                   closedAtStart>>
    /\ UNCHANGED streamVars
    /\ UNCHANGED sideVars
    /\ UNCHANGED sterms

\* Lines 383-389 as written, for a session that goes on in the block after
\* the commit of award_xp: the user is selected again and given the skill
\* points.  The source's own outcome is RewardSkillPointsRaises.
RewardSkillPointsStep(c) ==
    /\ pc[c] = "skill"
    /\ LET u == Head(todo[c]) IN
        IF u \in present
        THEN /\ ucache' = [ucache EXCEPT ![c][u].skill_points =
                                              @ + sterms[c].reward_skill_points]
             /\ udirty' = [udirty EXCEPT ![c] = @ \cup {u}]
        ELSE UNCHANGED <<ucache, udirty>>
    /\ todo' = [todo EXCEPT ![c] = Tail(@)]
    /\ pc' = [pc EXCEPT ![c] = IF Len(todo[c]) > 1 THEN "award" ELSE "commit"]
    /\ UNCHANGED <<dbVars, cuser, damage, sbattle, sdirty, old_total_xp, result,
                   completers, wrote, published, closedAtStart>>
    /\ UNCHANGED streamVars
    /\ UNCHANGED sideVars
    /\ UNCHANGED sterms

\* Line 383 inside async with db.begin(), after the commit of
\* update_user_xp_and_level (leveling_router.py line 75) closed the block's
\* transaction: the SELECT raises and the handler's except clause answers
\* 500.  The hit and the first participant's xp and level are stored by that
\* commit; nobody gets skill points, the other participants get nothing and
\* nothing is broadcast.
RewardSkillPointsRaises(c) ==
    /\ pc[c] = "skill"
    /\ CloseSession(c, "e500")
    /\ UNCHANGED <<dbVars, cuser, damage, completers, wrote, published,
                   closedAtStart>>
    /\ UNCHANGED streamVars
    /\ UNCHANGED sideVars
    /\ UNCHANGED sterms

\* db.add(battle); await db.commit()
AttackCommit(c) ==
    /\ pc[c] = "commit"
    /\ StoreBattle(c)
    /\ users' = FlushUsers(c, users)
    /\ sdirty' = [sdirty EXCEPT ![c] = {}]
    /\ udirty' = [udirty EXCEPT ![c] = {}]
    /\ wrote' = wrote \cup {c}
    /\ pc' = [pc EXCEPT ![c] = "refresh"]
    /\ UNCHANGED <<rewardVars, present, participants, members, cuser, damage,
                   sbattle, ucache, todo, old_total_xp, result, completers,
                   published, closedAtStart>>
    /\ UNCHANGED streamVars
    /\ UNCHANGED sideVars
    /\ UNCHANGED sterms

\* await db.refresh(battle) as written, for a session that goes on in the
\* block after its commit.  The source's own outcome is AttackRefreshRaises.
AttackRefresh(c) ==
    /\ pc[c] = "refresh"
    /\ sbattle' = [sbattle EXCEPT ![c] = StoredBattle(c)]
    /\ sterms' = [sterms EXCEPT ![c] = StoredTerms]
    /\ pc' = [pc EXCEPT ![c] = "publish"]
    /\ UNCHANGED <<dbVars, cuser, damage, sdirty, ucache, udirty, todo,
                   old_total_xp, result, completers, wrote, published,
                   closedAtStart>>
    /\ UNCHANGED streamVars
    /\ UNCHANGED sideVars

\* Line 393 inside async with db.begin(), after db.commit() (line 392)
\* closed the block's transaction: db.refresh raises InvalidRequestError and
\* the handler's except clause answers 500.  The hit is stored and nothing is
\* broadcast.
AttackRefreshRaises(c) ==
    /\ pc[c] = "refresh"
    /\ CloseSession(c, "e500")
    /\ UNCHANGED <<dbVars, cuser, damage, completers, wrote, published,
                   closedAtStart>>
    /\ UNCHANGED streamVars
    /\ UNCHANGED sideVars
    /\ UNCHANGED sterms

\* Lines 395-409 as written, for a response model that can be built: the
\* battle_update broadcast under the key of the battle's group, and the
\* response.  The source's own outcome is AttackReturnRaises.
AttackPublish(c) ==
    /\ pc[c] = "publish"
    /\ published' = Append(published, sbattle[c])
    /\ PublishTo(GroupKey, BattleUpdate(sbattle[c]))
    /\ CloseSession(c, "ok")
    /\ UNCHANGED <<dbVars, cuser, damage, completers, wrote, closedAtStart>>
    /\ UNCHANGED <<wspc, wsuser, link, closecode, pending, frames, lastrecv,
                   snapshot, got>>
    /\ UNCHANGED sideVars
    /\ UNCHANGED sterms

\* Lines 395-414 with the return of line 409 raising: GroupBossBattleRead
\* reads battle.users, a relationship the handler never loaded, and the
\* session cannot load it outside an awaited call.  The except clause answers
\* 500 after the commit and after the broadcast.
AttackReturnRaises(c) ==
    /\ pc[c] = "publish"
    /\ published' = Append(published, sbattle[c])
    /\ PublishTo(GroupKey, BattleUpdate(sbattle[c]))
    /\ CloseSession(c, "e500")
    /\ UNCHANGED <<dbVars, cuser, damage, completers, wrote, closedAtStart>>
    /\ UNCHANGED <<wspc, wsuser, link, closecode, pending, frames, lastrecv,
                   snapshot, got>>
    /\ UNCHANGED sideVars
    /\ UNCHANGED sterms

\* ------------------------------------------------------------ websocket_group_boss_battle
\* Line 424 calls get_current_user_optional(token=token, db=db); the function
\* imported from app/routers/auth.py (line 175) has the parameters
\* (request, db) and no parameter token, so the call itself raises TypeError.
\* The outer except clause (lines 504-509) closes with 1008 and nothing is
\* registered.
WsOpenAuthRaises(w, u) ==
    /\ wspc[w] = "new"
    /\ wsuser' = [wsuser EXCEPT ![w] = u]
    /\ wspc' = [wspc EXCEPT ![w] = "closed"]
    /\ closecode' = [closecode EXCEPT ![w] = PolicyViolation]
    /\ link' = [link EXCEPT ![w] = "closed"]
    /\ UNCHANGED <<active_connections, pending, inbox, frames, lastrecv, sendFailed>>
    /\ UNCHANGED <<dbVars, attackVars>>
    /\ UNCHANGED <<snapshot, got>>
    /\ UNCHANGED sideVars

\* websocket.close(code=1008) of the handshake: the handler ends and nothing
\* is registered.
WsReject(w) ==
    /\ wspc' = [wspc EXCEPT ![w] = "closed"]
    /\ closecode' = [closecode EXCEPT ![w] = PolicyViolation]
    /\ link' = [link EXCEPT ![w] = "closed"]

\* Lines 424-428 as written, for a call of line 424 that returns the token's
\* user or None: None closes with 1008.  The source's own outcome is
\* WsOpenAuthRaises.
WsOpen(w, u) ==
    /\ wspc[w] = "new"
    /\ wsuser' = [wsuser EXCEPT ![w] = u]
    /\ IF u \in present
       THEN /\ wspc' = [wspc EXCEPT ![w] = "battle"]
            /\ UNCHANGED <<closecode, link>>
       ELSE WsReject(w)
    /\ UNCHANGED <<active_connections, pending, inbox, frames, lastrecv, sendFailed>>
    /\ UNCHANGED <<dbVars, attackVars>>
    /\ UNCHANGED <<snapshot, got>>
    /\ UNCHANGED sideVars

\* Lines 431-438: the SELECT of the battle by id (the battle exists, no close).
WsReadBattle(w) ==
    /\ wspc[w] = "battle"
    /\ wspc' = [wspc EXCEPT ![w] = "member"]
    /\ UNCHANGED <<active_connections, wsuser, link, closecode, pending, inbox,
                   frames, lastrecv, sendFailed>>
    /\ UNCHANGED <<dbVars, attackVars>>
    /\ UNCHANGED <<snapshot, got>>
    /\ UNCHANGED sideVars

\* Lines 441-445: verify_group_member; 1008 for a user who is not a member.
WsCheckMember(w) ==
    /\ wspc[w] = "member"
    /\ IF verify_group_member(wsuser[w])
       THEN /\ wspc' = [wspc EXCEPT ![w] = "link"]
            /\ UNCHANGED <<closecode, link>>
       ELSE WsReject(w)
    /\ UNCHANGED <<active_connections, wsuser, pending, inbox, frames, lastrecv,
                   sendFailed>>
    /\ UNCHANGED <<dbVars, attackVars>>
    /\ UNCHANGED <<snapshot, got>>
    /\ UNCHANGED sideVars

\* Lines 448-457: the SELECT of the user's participant link; 1008 without one.
WsCheckLink(w) ==
    /\ wspc[w] = "link"
    /\ IF HasParticipantLink(wsuser[w])
       THEN /\ wspc' = [wspc EXCEPT ![w] = "accept"]
            /\ UNCHANGED <<closecode, link>>
       ELSE WsReject(w)
    /\ UNCHANGED <<active_connections, wsuser, pending, inbox, frames, lastrecv,
                   sendFailed>>
    /\ UNCHANGED <<dbVars, attackVars>>
    /\ UNCHANGED <<snapshot, got>>
    /\ UNCHANGED sideVars

\* Lines 459-460: manager.connect awaits websocket.accept() and then, without
\* another await, registers the connection under the battle's key; when
\* accept raises, the outer except clause (lines 504-509) closes with 1008.
WsConnect(w, accepts) ==
    /\ wspc[w] = "accept"
    /\ IF accepts
       THEN /\ active_connections' = connect(active_connections, w, BattleKey)
            /\ wspc' = [wspc EXCEPT ![w] = "subscribed"]
            /\ link' = [link EXCEPT ![w] = "open"]
            /\ UNCHANGED closecode
       ELSE /\ WsReject(w)
            /\ UNCHANGED active_connections
    /\ UNCHANGED <<wsuser, pending, inbox, frames, lastrecv, sendFailed>>
    /\ UNCHANGED <<dbVars, attackVars>>
    /\ UNCHANGED <<snapshot, got>>
    /\ UNCHANGED sideVars

\* The peer goes away or the transport breaks while the handler runs.
ClientDrop(w) ==
    /\ wspc[w] \in {"subscribed", "bcast", "error", "closing"}
    /\ link[w] = "open"
    /\ link' = [link EXCEPT ![w] = "gone"]
    /\ UNCHANGED <<active_connections, wspc, wsuser, closecode, pending, inbox,
                   frames, lastrecv, sendFailed>>
    /\ UNCHANGED <<dbVars, attackVars>>
    /\ UNCHANGED <<snapshot, got>>
    /\ UNCHANGED sideVars

\* Lines 494-496: receive_json raises WebSocketDisconnect.
WsReceiveDisconnect(w) ==
    /\ wspc[w] = "subscribed"
    /\ link[w] = "gone"
    /\ active_connections' = disconnect(active_connections, w, BattleKey)
    /\ wspc' = [wspc EXCEPT ![w] = "closed"]
    /\ UNCHANGED <<wsuser, link, closecode, pending, inbox, frames, lastrecv,
                   sendFailed>>
    /\ UNCHANGED <<dbVars, attackVars>>
    /\ UNCHANGED <<snapshot, got>>
    /\ UNCHANGED sideVars

\* Lines 464-503, one frame.  A chat_message starts broadcast_to_group under
\* the battle's key (lines 35-38: return when the key is missing, else the
\* snapshot list(...)).  Every other frame reaches the call of lines 481-491,
\* which passes sender= to broadcast_to_group(self, message, group_key): the
\* call raises TypeError; a frame that is not JSON raises in receive_json.
\* Both land in the except clause of lines 497-503, whose two awaited calls
\* are the steps WsSendError and WsCloseUnsupported; until the second one the
\* connection stays open and registered.
WsReceive(w, f) ==
    /\ wspc[w] = "subscribed"
    /\ link[w] = "open"
    /\ frames < MaxFrames
    /\ frames' = frames + 1
    /\ lastrecv' = [conn |-> w, type |-> f.type, damage |-> f.damage]
    /\ IF f.type = "chat_message"
       THEN /\ pending' = [pending EXCEPT ![w] =
                              Subscribers(active_connections, BattleKey)]
            /\ snapshot' = [snapshot EXCEPT ![w] =
                              Subscribers(active_connections, BattleKey)]
            /\ got' = [got EXCEPT ![w] = [t \in Conns |-> 0]]
            /\ wspc' = [wspc EXCEPT ![w] =
                           IF BattleKey \in DOMAIN active_connections
                           THEN "bcast" ELSE "subscribed"]
            /\ UNCHANGED <<inbox, closecode, link>>
       ELSE /\ wspc' = [wspc EXCEPT ![w] = "error"]
            /\ UNCHANGED <<inbox, closecode, link, pending, snapshot, got>>
    /\ UNCHANGED <<active_connections, wsuser, sendFailed>>
    /\ UNCHANGED <<dbVars, attackVars>>
    /\ UNCHANGED sideVars

\* Lines 499-502: await websocket.send_json of the error frame; an exception
\* of the send is passed over.
WsSendError(w) ==
    /\ wspc[w] = "error"
    /\ inbox' = [inbox EXCEPT ![w] = IF CanSend(w) THEN Append(@, ErrorMessage) ELSE @]
    /\ wspc' = [wspc EXCEPT ![w] = "closing"]
    /\ UNCHANGED <<active_connections, wsuser, link, closecode, pending, frames,
                   lastrecv, sendFailed, snapshot, got>>
    /\ UNCHANGED <<dbVars, attackVars>>
    /\ UNCHANGED sideVars

\* Line 503: await websocket.close(code=1003), with no manager.disconnect
\* before or after it.  On a connection that is already gone the close raises
\* into the outer except clause (lines 504-509), whose close is passed over.
WsCloseUnsupported(w) ==
    /\ wspc[w] = "closing"
    /\ wspc' = [wspc EXCEPT ![w] = "closed"]
    /\ IF CanSend(w)
       THEN /\ closecode' = [closecode EXCEPT ![w] = UnsupportedData]
            /\ link' = [link EXCEPT ![w] = "closed"]
       ELSE UNCHANGED <<closecode, link>>
    /\ UNCHANGED <<active_connections, wsuser, pending, inbox, frames, lastrecv,
                   sendFailed, snapshot, got>>
    /\ UNCHANGED <<dbVars, attackVars>>
    /\ UNCHANGED sideVars

\* The for loop staying at the element it has just sent to.
AfterTurnStays(rest, connection) == rest

\* The for loop over the snapshot list moves on: every element is visited once.
AfterTurn(rest, connection) == rest \ {connection}

\* connection_manager.py lines 38-44, one turn of the loop over the snapshot:
\* await connection.send_text(message), and on an exception the disconnect of
\* that connection.  The loop then goes on; after the last connection the
\* handler is back at receive_json.
WsBroadcastSend(w, t) ==
    /\ wspc[w] = "bcast"
    /\ t \in pending[w]
    /\ IF CanSend(t)
       THEN /\ inbox' = [inbox EXCEPT ![t] = Append(@, ChatMessage(wsuser[w]))]
            /\ got' = [got EXCEPT ![w][t] = @ + 1]
            /\ UNCHANGED <<active_connections, sendFailed>>
       ELSE /\ active_connections' = OnSendFailure(active_connections, t, BattleKey)
            /\ sendFailed' = sendFailed \cup {t}
            /\ UNCHANGED <<inbox, got>>
    /\ pending' = [pending EXCEPT ![w] = AfterTurn(@, t)]
    /\ wspc' = [wspc EXCEPT ![w] = IF pending[w] = {t} THEN "subscribed" ELSE "bcast"]
    /\ UNCHANGED <<wsuser, link, closecode, frames, lastrecv, snapshot>>
    /\ UNCHANGED <<dbVars, attackVars>>
    /\ UNCHANGED sideVars

\* ------------------------------------------------------------ join_group_boss_battle
\* The end of a join request.
JoinDone(j, code) ==
    /\ jpc' = [jpc EXCEPT ![j] = "done"]
    /\ jresult' = [jresult EXCEPT ![j] = code]

\* The request as the dependency of app/routers/auth.py answers it (lines
\* 200-218, see AttackUnauthorized): current_user is None for every token
\* and line 270 raises 401 before any SELECT.  juser keeps the user u the
\* token names.
JoinUnauthorized(j, u) ==
    /\ jpc[j] = "idle"
    /\ u \in present
    /\ juser' = [juser EXCEPT ![j] = u]
    /\ JoinDone(j, "e401")
    /\ jlate' = IF battle.is_completed THEN jlate \cup {j} ELSE jlate
    /\ jhad' = IF linkcount[u] > 0 THEN jhad \cup {j} ELSE jhad
    /\ UNCHANGED <<linkcount>>
    /\ UNCHANGED <<dbVars, attackVars, streamVars>>
    /\ UNCHANGED awardVars
    /\ UNCHANGED legacyVars
    /\ UNCHANGED legacyJoinVars

\* ------------------------------------------------------------ join_group_boss_battle of src/main.py
\* The end of a join request of src/main.py: its locals are gone.
LegacyJoinDone(l, code) ==
    /\ ljpc' = [ljpc EXCEPT ![l] = "done"]
    /\ ljresult' = [ljresult EXCEPT ![l] = code]
    /\ ljuser' = [ljuser EXCEPT ![l] = 0]

\* POST /group_boss_battles/{battle_id}/join: get_current_user of src/main.py
\* finds the token's user.
LegacyJoinRequest(l, u) ==
    /\ ljpc[l] = "idle"
    /\ u \in present
    /\ ljuser' = [ljuser EXCEPT ![l] = u]
    /\ ljpc' = [ljpc EXCEPT ![l] = "read"]
    /\ UNCHANGED ljresult
    /\ UNCHANGED <<linkcount, jpc, juser, jresult, jlate, jhad>>
    /\ UNCHANGED <<dbVars, attackVars, streamVars>>
    /\ UNCHANGED awardVars
    /\ UNCHANGED legacyVars

\* Line 595 as the source stands: db is a sqlalchemy AsyncSession, which has
\* no exec; the call raises AttributeError and the response is a 500.
LegacyJoinReadRaises(l) ==
    /\ ljpc[l] = "read"
    /\ LegacyJoinDone(l, "e500")
    /\ UNCHANGED <<linkcount, jpc, juser, jresult, jlate, jhad>>
    /\ UNCHANGED <<dbVars, attackVars, streamVars>>
    /\ UNCHANGED awardVars
    /\ UNCHANGED legacyVars

\* ------------------------------------------------------------ award_user_xp
\* GET /progress: total_xp and level of calculate_level_and_progress, read
\* from the stored row.
ProgressTotalXp(user_id) == users[user_id].xp

ProgressLevel(user_id) == get_level_from_xp(ProgressTotalXp(user_id))

\* The request arrives and get_current_user finds the caller.
AwardEndpointRequest(a, u, n) ==
    /\ apc[a] = "idle"
    /\ u \in present
    /\ auser' = [auser EXCEPT ![a] = u]
    /\ axp' = [axp EXCEPT ![a] = n]
    /\ apc' = [apc EXCEPT ![a] = "getxp"]
    /\ UNCHANGED <<aold, aresult, aresponse>>
    /\ UNCHANGED <<dbVars, attackVars, streamVars, joinVars>>
    /\ UNCHANGED legacyVars
    /\ UNCHANGED writerVars

\* award_xp lines 121-124: 400 for an amount that is not positive, then
\* get_user_xp reads the stored xp in the request's own session.
AwardEndpointGetXp(a) ==
    /\ apc[a] = "getxp"
    /\ IF axp[a] <= 0
       THEN /\ apc' = [apc EXCEPT ![a] = "done"]
            /\ aresult' = [aresult EXCEPT ![a] = "e400"]
            /\ UNCHANGED aold
       ELSE /\ aold' = [aold EXCEPT ![a] = users[auser[a]].xp]
            /\ apc' = [apc EXCEPT ![a] = "update"]
            /\ UNCHANGED aresult
    /\ UNCHANGED <<auser, axp, aresponse>>
    /\ UNCHANGED <<dbVars, attackVars, streamVars, joinVars>>
    /\ UNCHANGED legacyVars
    /\ UNCHANGED writerVars

\* The response of award_xp, lines 148-156: built from the values computed in
\* the handler, whatever update_user_xp_and_level returned.
AwardResponse(a) ==
    /\ apc' = [apc EXCEPT ![a] = "done"]
    /\ aresult' = [aresult EXCEPT ![a] = "ok"]
    /\ aresponse' = [aresponse EXCEPT ![a] = aold[a] + axp[a]]

\* update_user_xp_and_level lines 69-74: the UPDATE sets xp to the total the
\* handler computed from its earlier read, and level to that total's level.
StoredAfterUpdate(row, old, n) ==
    [row EXCEPT !.xp = old + n, !.level = get_level_from_xp(old + n)]

\* Lines 127-156 with update_user_xp_and_level returning True.
AwardEndpointUpdate(a) ==
    /\ apc[a] = "update"
    /\ users' = [users EXCEPT ![auser[a]] = StoredAfterUpdate(@, aold[a], axp[a])]
    /\ AwardResponse(a)
    /\ UNCHANGED <<auser, axp, aold>>
    /\ UNCHANGED <<battle, rewardVars, present, participants, members>>
    /\ UNCHANGED <<attackVars, streamVars, joinVars>>
    /\ UNCHANGED legacyVars
    /\ UNCHANGED writerVars

\* Lines 127-156 with the UPDATE or its commit raising: lines 78-81 roll back
\* and return False, which award_xp only copies into debug_info.
AwardEndpointUpdateFails(a) ==
    /\ apc[a] = "update"
    /\ AwardResponse(a)
    /\ UNCHANGED <<auser, axp, aold>>
    /\ UNCHANGED <<dbVars, attackVars, streamVars, joinVars>>
    /\ UNCHANGED legacyVars
    /\ UNCHANGED writerVars

\* ------------------------------------------------------------ other handlers that write user rows
\* A request starts in one of these handlers; its session is new.
WriterStart ==
    /\ wrpc = "idle"
    /\ wrcount < MaxWrites
    /\ wrcount' = wrcount + 1

\* The request ends: its locals and its session are gone.
WriterDone(code) ==
    /\ wrpc' = "idle"
    /\ wrresult' = code
    /\ wruser' = 0
    /\ wrload' = NoRow
    /\ wrxp' = 0

\* The columns of a session's User object that a commit writes: those whose
\* value was changed, as the loaded value plus the change.
WrittenRow(row, loaded, xp, skill_points) ==
    [row EXCEPT !.xp = IF xp # 0 THEN loaded.xp + xp ELSE @,
                !.skill_points = IF skill_points # 0
                                 THEN loaded.skill_points + skill_points ELSE @]

\* update_user_xp of the admin router, lines 289-295 for an admin: the SELECT
\* of the user loads the row (404 without one).
AdminUpdateUserXpRead(user_id, xp) ==
    /\ WriterStart
    /\ IF user_id \notin present
       THEN WriterDone("e404")
       ELSE /\ wrpc' = "admin_commit"
            /\ wruser' = user_id
            /\ wrload' = users[user_id]
            /\ wrxp' = xp
            /\ UNCHANGED wrresult
    /\ UNCHANGED <<quest_completed, pomodoro_completed, user_skill>>
    /\ UNCHANGED <<apc, auser, axp, aold, aresult, aresponse>>
    /\ UNCHANGED <<dbVars, attackVars, streamVars, joinVars, legacyVars>>

\* Lines 296-298: user.xp += xp_update.xp and the commit, which writes the
\* xp column as the loaded value plus the amount. level is not touched.
AdminUpdateUserXpCommit ==
    /\ wrpc = "admin_commit"
    /\ users' = [users EXCEPT ![wruser] = WrittenRow(@, wrload, wrxp, 0)]
    /\ WriterDone("ok")
    /\ UNCHANGED <<wrcount, quest_completed, pomodoro_completed, user_skill>>
    /\ UNCHANGED <<apc, auser, axp, aold, aresult, aresponse>>
    /\ UNCHANGED <<battle, rewardVars, present, participants, members>>
    /\ UNCHANGED <<attackVars, streamVars, joinVars, legacyVars>>

\* complete_quest of the quests router, lines 89-94: the handler's session
\* loads the caller's row.
CompleteQuestReadUser(u) ==
    /\ WriterStart
    /\ u \in present
    /\ wrpc' = "quest_read"
    /\ wruser' = u
    /\ wrload' = users[u]
    /\ UNCHANGED <<wrxp, wrresult, quest_completed, pomodoro_completed, user_skill>>
    /\ UNCHANGED <<apc, auser, axp, aold, aresult, aresponse>>
    /\ UNCHANGED <<dbVars, attackVars, streamVars, joinVars, legacyVars>>

\* Lines 96-111: the SELECT of the caller's quest; 400 for a completed one.
CompleteQuestReadQuest ==
    /\ wrpc = "quest_read"
    /\ IF quest_completed[wruser]
       THEN WriterDone("e400")
       ELSE /\ wrpc' = "quest_commit"
            /\ UNCHANGED <<wruser, wrload, wrxp, wrresult>>
    /\ UNCHANGED <<wrcount, quest_completed, pomodoro_completed, user_skill>>
    /\ UNCHANGED <<apc, auser, axp, aold, aresult, aresponse>>
    /\ UNCHANGED <<dbVars, attackVars, streamVars, joinVars, legacyVars>>

\* Lines 113-121: the quest is marked completed, the rewards are added to the
\* loaded user object and the commit writes both rows.
CompleteQuestCommit ==
    /\ wrpc = "quest_commit"
    /\ quest_completed' = [quest_completed EXCEPT ![wruser] = TRUE]
    /\ users' = [users EXCEPT ![wruser] =
                    WrittenRow(@, wrload, QuestRewardXp, QuestRewardSkillPoints)]
    /\ WriterDone("ok")
    /\ UNCHANGED <<wrcount, pomodoro_completed, user_skill>>
    /\ UNCHANGED <<apc, auser, axp, aold, aresult, aresponse>>
    /\ UNCHANGED <<battle, rewardVars, present, participants, members>>
    /\ UNCHANGED <<attackVars, streamVars, joinVars, legacyVars>>

\* complete_pomodoro_session, line 73: db.get loads the caller's row.
CompletePomodoroReadUser(u) ==
    /\ WriterStart
    /\ u \in present
    /\ wrpc' = "pomodoro_read"
    /\ wruser' = u
    /\ wrload' = users[u]
    /\ UNCHANGED <<wrxp, wrresult, quest_completed, pomodoro_completed, user_skill>>
    /\ UNCHANGED <<apc, auser, axp, aold, aresult, aresponse>>
    /\ UNCHANGED <<dbVars, attackVars, streamVars, joinVars, legacyVars>>

\* Lines 77-87: the SELECT of the caller's session, filtered on is_completed
\* false. The 404 for a completed one is raised inside the try block, whose
\* except Exception turns it into a 500.
CompletePomodoroReadSession ==
    /\ wrpc = "pomodoro_read"
    /\ IF pomodoro_completed[wruser]
       THEN WriterDone("e500")
       ELSE /\ wrpc' = "pomodoro_commit"
            /\ UNCHANGED <<wruser, wrload, wrxp, wrresult>>
    /\ UNCHANGED <<wrcount, quest_completed, pomodoro_completed, user_skill>>
    /\ UNCHANGED <<apc, auser, axp, aold, aresult, aresponse>>
    /\ UNCHANGED <<dbVars, attackVars, streamVars, joinVars, legacyVars>>

\* Lines 89-98: the session is marked completed, duration * 5 is added to the
\* loaded user object's xp and the commit writes both rows. What follows
\* (refresh, a broadcast to a key without connections, the response) changes
\* no row.
CompletePomodoroCommit ==
    /\ wrpc = "pomodoro_commit"
    /\ pomodoro_completed' = [pomodoro_completed EXCEPT ![wruser] = TRUE]
    /\ users' = [users EXCEPT ![wruser] =
                    WrittenRow(@, wrload, PomodoroDuration * PomodoroXpPerMinute, 0)]
    /\ WriterDone("ok")
    /\ UNCHANGED <<wrcount, quest_completed, user_skill>>
    /\ UNCHANGED <<apc, auser, axp, aold, aresult, aresponse>>
    /\ UNCHANGED <<battle, rewardVars, present, participants, members>>
    /\ UNCHANGED <<attackVars, streamVars, joinVars, legacyVars>>

\* acquire_skill, lines 49-68: the SELECT of the skill and of the caller's
\* user_skill row. The 400 for a caller who has one is raised inside the try
\* block, whose except Exception turns it into a 500.
AcquireSkillCheckExisting(u) ==
    /\ WriterStart
    /\ u \in present
    /\ IF u \in user_skill
       THEN WriterDone("e500")
       ELSE /\ wrpc' = "skill_user"
            /\ wruser' = u
            /\ UNCHANGED <<wrload, wrxp, wrresult>>
    /\ UNCHANGED <<quest_completed, pomodoro_completed, user_skill>>
    /\ UNCHANGED <<apc, auser, axp, aold, aresult, aresponse>>
    /\ UNCHANGED <<dbVars, attackVars, streamVars, joinVars, legacyVars>>

\* Lines 70-77: db.get loads the caller's row; with fewer skill points than
\* the skill costs the 400 becomes a 500 the same way.
AcquireSkillReadUser ==
    /\ wrpc = "skill_user"
    /\ IF users[wruser].skill_points < SkillCost
       THEN WriterDone("e500")
       ELSE /\ wrload' = users[wruser]
            /\ wrpc' = "skill_commit"
            /\ UNCHANGED <<wruser, wrxp, wrresult>>
    /\ UNCHANGED <<wrcount, quest_completed, pomodoro_completed, user_skill>>
    /\ UNCHANGED <<apc, auser, axp, aold, aresult, aresponse>>
    /\ UNCHANGED <<dbVars, attackVars, streamVars, joinVars, legacyVars>>

\* Lines 79-93: the user_skill row is added, the cost is taken from the loaded
\* user object's skill_points, and flush and commit write both.
AcquireSkillCommit ==
    /\ wrpc = "skill_commit"
    /\ user_skill' = user_skill \cup {wruser}
    /\ users' = [users EXCEPT ![wruser] = WrittenRow(@, wrload, 0, -SkillCost)]
    /\ WriterDone("ok")
    /\ UNCHANGED <<wrcount, quest_completed, pomodoro_completed>>
    /\ UNCHANGED <<apc, auser, axp, aold, aresult, aresponse>>
    /\ UNCHANGED <<battle, rewardVars, present, participants, members>>
    /\ UNCHANGED <<attackVars, streamVars, joinVars, legacyVars>>

\* register_user, lines 252-287: the SELECT for an existing user with the
\* name or the address; 400 for one that exists.
RegisterUserCheck(u) ==
    /\ WriterStart
    /\ IF u \in present
       THEN WriterDone("e400")
       ELSE /\ wrpc' = "register_commit"
            /\ wruser' = u
            /\ UNCHANGED <<wrload, wrxp, wrresult>>
    /\ UNCHANGED <<quest_completed, pomodoro_completed, user_skill>>
    /\ UNCHANGED <<apc, auser, axp, aold, aresult, aresponse>>
    /\ UNCHANGED <<dbVars, attackVars, streamVars, joinVars, legacyVars>>

\* Lines 293-308: the row is inserted with xp 0, level 1 and 100 skill points
\* and committed; the unique columns refuse a second row. The verification
\* token and the mail that follow change none of these columns.
RegisterUserCommit ==
    /\ wrpc = "register_commit"
    /\ IF wruser \in present
       THEN /\ WriterDone("e500")
            /\ UNCHANGED <<users, present>>
       ELSE /\ present' = present \cup {wruser}
            /\ users' = [users EXCEPT ![wruser] =
                            [xp |-> 0, level |-> 1, skill_points |-> RegisterSkillPoints]]
            /\ WriterDone("ok")
    /\ UNCHANGED <<wrcount, quest_completed, pomodoro_completed, user_skill>>
    /\ UNCHANGED <<apc, auser, axp, aold, aresult, aresponse>>
    /\ UNCHANGED <<battle, rewardVars, participants, members>>
    /\ UNCHANGED <<attackVars, streamVars, joinVars, legacyVars>>

\* ------------------------------------------------------------ perform_battle_action
LegacyDamage(action_type) ==
    IF action_type = "attack" THEN LegacyAttackDamage
    ELSE IF action_type = "special" THEN LegacySpecialDamage
    ELSE 0

\* Lines 26-58 on a row with an is_active attribute that reads true: the
\* caller's link is added, the action's damage is taken off current_health
\* and the completion branch of lines 48-55 overwrites the reward terms.
PerformBattleActionWrites(u, action_type) ==
    /\ lactions < MaxLegacyActions
    /\ u \in present
    /\ lactions' = lactions + 1
    /\ lresult' = "e500"
    /\ participants' = participants \cup {u}
    /\ linkcount' = [linkcount EXCEPT ![u] = IF @ = 0 THEN 1 ELSE @]
    /\ LET health == battle.current_health - LegacyDamage(action_type) IN
       IF health <= 0
       THEN /\ battle' = [current_health |-> health, score |-> LegacyScore,
                          is_completed |-> TRUE, passed |-> PassedTrue]
            /\ reward_xp' = LegacyRewardXp
            /\ reward_skill_points' = LegacyRewardSkillPoints
            /\ reward_items' = LegacyRewardItemCount
       ELSE /\ battle' = [battle EXCEPT !.current_health = health]
            /\ UNCHANGED rewardVars
    /\ UNCHANGED <<users, present, members>>
    /\ UNCHANGED <<attackVars, streamVars, awardVars>>
    /\ UNCHANGED <<jpc, juser, jresult, jlate, jhad, legacyJoinVars>>
    /\ UNCHANGED <<managerVars, updateVars>>

\* Lines 26-31 on the model as declared: GroupBossBattle (app/models.py
\* 234-252) has no is_active, so line 31 raises AttributeError on the loaded
\* battle and the request ends with a 500 before anything is assigned.
PerformBattleActionRaises(u, action_type) ==
    /\ lactions < MaxLegacyActions
    /\ u \in present
    /\ lactions' = lactions + 1
    /\ lresult' = "e500"
    /\ UNCHANGED <<dbVars, attackVars, streamVars, joinVars, awardVars>>
    /\ UNCHANGED <<managerVars, updateVars>>

\* ------------------------------------------------------------ update_group_boss_battle
\* The end of an update request: its locals and its session are gone.
BattleUpdateDone(code) ==
    /\ bupc' = "done"
    /\ buresult' = code
    /\ buuser' = 0

\* POST /group_boss_battles/{battle_id}/update: get_current_user of src/main.py
\* finds the token's user.
BattleUpdateRequest(u) ==
    /\ bupc = "idle"
    /\ u \in present
    /\ buuser' = u
    /\ bupc' = "read"
    /\ UNCHANGED buresult
    /\ UNCHANGED <<lactions, lresult, managerVars>>
    /\ UNCHANGED <<dbVars, attackVars, streamVars, joinVars, awardVars>>

\* Line 611 as the source stands: db is a sqlalchemy AsyncSession, which has
\* no exec; the call raises AttributeError and the response is a 500.
BattleUpdateReadRaises ==
    /\ bupc = "read"
    /\ BattleUpdateDone("e500")
    /\ UNCHANGED <<lactions, lresult, managerVars>>
    /\ UNCHANGED <<dbVars, attackVars, streamVars, joinVars, awardVars>>

\* ------------------------------------------------------------ ConnectionManager of src/main.py
\* The key's list, empty when the key is absent.
LegacyList(reg, key) == IF key \in DOMAIN reg THEN reg[key] ELSE <<>>

\* list.remove: the first occurrence is taken out.
RECURSIVE RemoveFirst(_, _)
RemoveFirst(list, x) ==
    IF list = <<>> THEN <<>>
    ELSE IF Head(list) = x THEN Tail(list)
    ELSE <<Head(list)>> \o RemoveFirst(Tail(list), x)

InList(list, x) == \E i \in 1..Len(list) : list[i] = x

\* connect, after websocket.accept(): the key's list is created when missing
\* and the websocket appended.
LegacyConnectTo(reg, websocket, key) ==
    [k \in DOMAIN reg \cup {key} |->
        IF k = key THEN Append(LegacyList(reg, key), websocket) ELSE reg[k]]

\* disconnect, for a websocket that is in the key's list: it is removed and
\* the key deleted when the list is empty.
LegacyDisconnectFrom(reg, websocket, key) ==
    LET rest == RemoveFirst(reg[key], websocket) IN
    IF rest = <<>>
    THEN [k \in DOMAIN reg \ {key} |-> reg[k]]
    ELSE [reg EXCEPT ![key] = rest]

\* websocket_battle_state, lines 665-671: after get_current_user the handler
\* calls db.exec on a sqlalchemy AsyncSession, which has no exec; the
\* AttributeError ends the handler before the websocket is accepted and
\* before manager.connect of line 679.  Nothing is registered.
LegacyBattleStateRaises(w) ==
    /\ lws[w] = "new"
    /\ lws' = [lws EXCEPT ![w] = "closed"]
    /\ UNCHANGED <<lconnections, liter, lgot, lstart, lquiet>>
    /\ UNCHANGED <<lactions, lresult, updateVars>>
    /\ UNCHANGED <<dbVars, attackVars, streamVars, joinVars, awardVars>>

\* websocket_notifications, lines 435-442: get_current_user reads the
\* token's user with db.execute and the handler calls
\* manager.connect(websocket, "notifications"), which accepts the websocket
\* and appends it to the key's list.  A token without a user closes with
\* 1008 and registers nothing.
LegacyConnect(w, user) ==
    /\ lws[w] = "new"
    /\ IF user \in present
       THEN /\ lws' = [lws EXCEPT ![w] = "open"]
            /\ lconnections' = LegacyConnectTo(lconnections, w, LegacyKey)
            /\ lquiet' = (lquiet /\ ~liter.active)
       ELSE /\ lws' = [lws EXCEPT ![w] = "closed"]
            /\ UNCHANGED <<lconnections, lquiet>>
    /\ UNCHANGED <<liter, lgot, lstart>>
    /\ UNCHANGED <<lactions, lresult, updateVars>>
    /\ UNCHANGED <<dbVars, attackVars, streamVars, joinVars, awardVars>>

\* The client of a registered websocket goes away: sends to it fail from now
\* on and its handler's receive will raise WebSocketDisconnect.
LegacyClientGone(w) ==
    /\ lws[w] = "open"
    /\ lws' = [lws EXCEPT ![w] = "gone"]
    /\ UNCHANGED <<lconnections, liter, lgot, lstart, lquiet>>
    /\ UNCHANGED <<lactions, lresult, updateVars>>
    /\ UNCHANGED <<dbVars, attackVars, streamVars, joinVars, awardVars>>

\* The handler's except WebSocketDisconnect: manager.disconnect. When a
\* failed send already removed the websocket while the key still exists,
\* list.remove raises ValueError and the registry is as before.
LegacyDisconnect(w) ==
    /\ lws[w] = "gone"
    /\ lws' = [lws EXCEPT ![w] = "closed"]
    /\ IF InList(LegacyList(lconnections, LegacyKey), w)
       THEN /\ lconnections' = LegacyDisconnectFrom(lconnections, w, LegacyKey)
            /\ liter' = IF liter.active /\ LegacyKey \notin DOMAIN lconnections'
                        THEN [liter EXCEPT !.orphan = TRUE] ELSE liter
            /\ lquiet' = (lquiet /\ ~liter.active)
       ELSE UNCHANGED <<lconnections, liter, lquiet>>
    /\ UNCHANGED <<lgot, lstart>>
    /\ UNCHANGED <<lactions, lresult, updateVars>>
    /\ UNCHANGED <<dbVars, attackVars, streamVars, joinVars, awardVars>>

\* What the loop's iterator still sees: the list it was created on.
IteratedList == IF liter.orphan THEN <<>> ELSE LegacyList(lconnections, LegacyKey)

\* The index of the list iterator after it handed out the element at index:
\* it moves on by one, whatever happens to the element afterwards.
NextIndex(index) == index + 1

\* Lines 102-103 from the iterator's index on: the elements equal to the
\* sender are passed without an await; the first other one is the element
\* line 105 sends to. 0 when the list ends first.
FetchFrom(list, index, sender) ==
    LET rest == {i \in index..Len(list) : list[i] # sender} IN
    IF rest = {} THEN 0 ELSE CHOOSE i \in rest : \A j \in rest : i <= j

\* The loop runs on over `list` up to its next await: it waits in send_text
\* for the element it fetched, or it has ended.
RunToSend(it, list) ==
    LET i == FetchFrom(list, it.index, it.sender) IN
    IF i = 0
    THEN [it EXCEPT !.active = FALSE, !.waiting = 0]
    ELSE [it EXCEPT !.index = NextIndex(i), !.waiting = list[i]]

\* broadcast(message, key, sender), lines 101-105: with the key present the
\* for loop starts on the key's list itself and runs, without yielding, up to
\* its first send_text.
LegacyBroadcastStart(sender) ==
    /\ ~liter.active
    /\ sender # NoSender => lws[sender] = "open"
    /\ LegacyKey \in DOMAIN lconnections
    /\ liter' = RunToSend([active |-> TRUE, sender |-> sender, index |-> 1,
                           orphan |-> FALSE, waiting |-> 0, raised |-> FALSE],
                          lconnections[LegacyKey])
    /\ lgot' = {}
    /\ lstart' = lconnections[LegacyKey]
    /\ lquiet' = TRUE
    /\ UNCHANGED <<lconnections, lws>>
    /\ UNCHANGED <<lactions, lresult, updateVars>>
    /\ UNCHANGED <<dbVars, attackVars, streamVars, joinVars, awardVars>>

\* Line 105 returns: the element got the message, and the loop runs on to
\* its next send_text over the list as it is now.
LegacyBroadcastSent ==
    /\ liter.active
    /\ liter.waiting # 0
    /\ lws[liter.waiting] = "open"
    /\ lgot' = lgot \cup {liter.waiting}
    /\ liter' = RunToSend(liter, IteratedList)
    /\ UNCHANGED <<lconnections, lws, lstart, lquiet>>
    /\ UNCHANGED <<lactions, lresult, updateVars>>
    /\ UNCHANGED <<dbVars, attackVars, streamVars, joinVars, awardVars>>

\* Line 105 raises and line 107 calls self.disconnect(connection, key).
\* Without the key nothing happens; with the element in the key's list it is
\* removed from the list the loop is iterating; with the key present and the
\* element no longer in its list (its handler disconnected it while the send
\* was waiting), list.remove raises ValueError inside the except clause, which
\* ends broadcast with that exception. Otherwise the loop runs on to its next
\* send_text.
LegacyBroadcastSendFails ==
    /\ liter.active
    /\ liter.waiting # 0
    /\ lws[liter.waiting] # "open"
    /\ LET connection == liter.waiting IN
       IF LegacyKey \notin DOMAIN lconnections
       THEN /\ liter' = RunToSend(liter, IteratedList)
            /\ UNCHANGED lconnections
       ELSE IF InList(lconnections[LegacyKey], connection)
       THEN LET reg == LegacyDisconnectFrom(lconnections, connection, LegacyKey)
                orphan == liter.orphan \/ LegacyKey \notin DOMAIN reg
            IN /\ lconnections' = reg
               /\ liter' = RunToSend([liter EXCEPT !.orphan = orphan],
                                     IF orphan THEN <<>> ELSE reg[LegacyKey])
       ELSE /\ liter' = [liter EXCEPT !.active = FALSE, !.waiting = 0,
                                      !.raised = TRUE]
            /\ UNCHANGED lconnections
    /\ UNCHANGED <<lws, lgot, lstart, lquiet>>
    /\ UNCHANGED <<lactions, lresult, updateVars>>
    /\ UNCHANGED <<dbVars, attackVars, streamVars, joinVars, awardVars>>

Next ==
    \/ \E c \in Calls, u \in Users, d \in DamageInputs : AttackRequest(c, u, d)
    \/ \E c \in Calls, u \in Users, d \in DamageInputs : AttackUnauthorized(c, u, d)
    \/ \E c \in Calls : AttackReadBattle(c)
    \/ \E c \in Calls : AttackCheck(c)
    \/ \E c \in Calls : AttackCheckLink(c)
    \/ \E c \in Calls : AttackBegin(c)
    \/ \E c \in Calls : AttackBeginRaises(c)
    \/ \E c \in Calls : AwardGetXp(c)
    \/ \E c \in Calls : UpdateUserXpAndLevel(c)
    \/ \E c \in Calls : UpdateUserXpAndLevelFails(c)
    \/ \E c \in Calls : RewardSkillPointsStep(c)
    \/ \E c \in Calls : RewardSkillPointsRaises(c)
    \/ \E c \in Calls : AttackCommit(c)
    \/ \E c \in Calls : AttackRefresh(c)
    \/ \E c \in Calls : AttackRefreshRaises(c)
    \/ \E c \in Calls : AttackPublish(c)
    \/ \E c \in Calls : AttackReturnRaises(c)

Spec == Init /\ [][Next]_vars

\* The battle stream beside attack requests.
StreamNext ==
    \/ \E w \in Conns, u \in 0..MaxUsers : WsOpenAuthRaises(w, u)
    \/ \E w \in Conns, u \in 0..MaxUsers : WsOpen(w, u)
    \/ \E w \in Conns : WsReadBattle(w)
    \/ \E w \in Conns : WsCheckMember(w)
    \/ \E w \in Conns : WsCheckLink(w)
    \/ \E w \in Conns, accepts \in BOOLEAN : WsConnect(w, accepts)
    \/ \E w \in Conns : ClientDrop(w)
    \/ \E w \in Conns : WsReceiveDisconnect(w)
    \/ \E w \in Conns, f \in FrameInputs : WsReceive(w, f)
    \/ \E w \in Conns : WsSendError(w)
    \/ \E w \in Conns : WsCloseUnsupported(w)
    \/ \E w \in Conns, t \in Conns : WsBroadcastSend(w, t)
    \/ \E c \in StreamCalls, u \in Users, d \in StreamDamageInputs : AttackRequest(c, u, d)
    \/ \E c \in StreamCalls, u \in Users, d \in StreamDamageInputs : AttackUnauthorized(c, u, d)
    \/ \E c \in StreamCalls : AttackReadBattle(c)
    \/ \E c \in StreamCalls : AttackCheck(c)
    \/ \E c \in StreamCalls : AttackCheckLink(c)
    \/ \E c \in StreamCalls : AttackBegin(c)
    \/ \E c \in StreamCalls : AttackBeginRaises(c)
    \/ \E c \in StreamCalls : AwardGetXp(c)
    \/ \E c \in StreamCalls : UpdateUserXpAndLevel(c)
    \/ \E c \in StreamCalls : UpdateUserXpAndLevelFails(c)
    \/ \E c \in StreamCalls : RewardSkillPointsStep(c)
    \/ \E c \in StreamCalls : RewardSkillPointsRaises(c)
    \/ \E c \in StreamCalls : AttackCommit(c)
    \/ \E c \in StreamCalls : AttackRefresh(c)
    \/ \E c \in StreamCalls : AttackRefreshRaises(c)
    \/ \E c \in StreamCalls : AttackPublish(c)
    \/ \E c \in StreamCalls : AttackReturnRaises(c)

\* The stream starts with every user's row in place and a battle that pays
\* an XP reward; a token that names no user is the user id 0 of WsOpen.
StreamInit ==
    /\ Init
    /\ present = Users
    /\ reward_xp > 0
    /\ members \in {Users, {1}}
    /\ participants \in {Users, {1}}

StreamSpec == StreamInit /\ [][StreamNext]_vars

\* Requests to POST /award beside the other handlers that write user rows.
AwardNext ==
    \/ \E a \in Awards, u \in Users, n \in XpInputs : AwardEndpointRequest(a, u, n)
    \/ \E a \in Awards : AwardEndpointGetXp(a)
    \/ \E a \in Awards : AwardEndpointUpdate(a)
    \/ \E a \in Awards : AwardEndpointUpdateFails(a)
    \/ \E u \in Users, xp \in AdminXpInputs : AdminUpdateUserXpRead(u, xp)
    \/ AdminUpdateUserXpCommit
    \/ \E u \in Users : CompleteQuestReadUser(u)
    \/ CompleteQuestReadQuest
    \/ CompleteQuestCommit
    \/ \E u \in Users : CompletePomodoroReadUser(u)
    \/ CompletePomodoroReadSession
    \/ CompletePomodoroCommit
    \/ \E u \in Users : AcquireSkillCheckExisting(u)
    \/ AcquireSkillReadUser
    \/ AcquireSkillCommit
    \/ \E u \in Users : RegisterUserCheck(u)
    \/ RegisterUserCommit

\* The rows these handlers use: the battle plays no part.
AwardInit == Init /\ members = Users /\ participants = Users /\ reward_xp > 0

AwardSpec == AwardInit /\ [][AwardNext]_vars

\* Websocket handlers of src/main.py registering and dropping websockets
\* beside a broadcast of its ConnectionManager on their key.
ManagerNext ==
    \/ \E w \in LegacyConns : LegacyBattleStateRaises(w)
    \/ \E w \in LegacyConns, user \in 0..MaxUsers : LegacyConnect(w, user)
    \/ \E w \in LegacyConns : LegacyClientGone(w)
    \/ \E w \in LegacyConns : LegacyDisconnect(w)
    \/ \E sender \in LegacyConns \cup {NoSender} : LegacyBroadcastStart(sender)
    \/ LegacyBroadcastSent
    \/ LegacyBroadcastSendFails

ManagerSpec == Init /\ [][ManagerNext]_vars

\* The battle endpoints as the source answers them.  An attack or a join with
\* any token is answered 401 (get_current_user_optional returns None), an
\* attack with an invalid body 422; the join and update handlers of
\* src/main.py raise at their first db.exec and perform_battle_action at
\* line 31.  No step of these writes a row.
BuildNext ==
    \/ \E c \in Calls, u \in Users, d \in DamageInputs : AttackUnauthorized(c, u, d)
    \/ \E c \in Calls, u \in Users, d \in DamageInputs : AttackInvalid(c, u, d)
    \/ \E j \in Joins, u \in Users : JoinUnauthorized(j, u)
    \/ \E l \in LegacyJoins, u \in Users : LegacyJoinRequest(l, u)
    \/ \E l \in LegacyJoins : LegacyJoinReadRaises(l)
    \/ \E u \in Users, t \in ActionTypes : PerformBattleActionRaises(u, t)
    \/ \E u \in Users : BattleUpdateRequest(u)
    \/ BattleUpdateReadRaises

\* Stored rows the handlers are written for: an open battle whose group has
\* every user as member, with any set of participant links.
BuildInit == Init /\ present = Users /\ members = Users

BuildSpec == BuildInit /\ [][BuildNext]_vars

\* The same rows around a battle stored as completed.
ClosedInit == InitRows(CompletedBattle) /\ present = Users /\ members = Users

ClosedSpec == ClosedInit /\ [][BuildNext]_vars

\* Every battle operation: the attack handler of the router with all its
\* steps, beside one join request of the router, the update endpoint of
\* src/main.py and perform_battle_action.
TermsNext ==
    \/ \E c \in Calls, u \in Users, d \in StreamDamageInputs : AttackRequest(c, u, d)
    \/ \E c \in Calls, u \in Users, d \in StreamDamageInputs : AttackUnauthorized(c, u, d)
    \/ \E c \in Calls : AttackReadBattle(c)
    \/ \E c \in Calls : AttackCheck(c)
    \/ \E c \in Calls : AttackCheckLink(c)
    \/ \E c \in Calls : AttackBegin(c)
    \/ \E c \in Calls : AttackBeginRaises(c)
    \/ \E c \in Calls : AwardGetXp(c)
    \/ \E c \in Calls : UpdateUserXpAndLevel(c)
    \/ \E c \in Calls : UpdateUserXpAndLevelFails(c)
    \/ \E c \in Calls : RewardSkillPointsStep(c)
    \/ \E c \in Calls : RewardSkillPointsRaises(c)
    \/ \E c \in Calls : AttackCommit(c)
    \/ \E c \in Calls : AttackRefresh(c)
    \/ \E c \in Calls : AttackRefreshRaises(c)
    \/ \E c \in Calls : AttackPublish(c)
    \/ \E c \in Calls : AttackReturnRaises(c)
    \/ \E u \in Users : JoinUnauthorized(1, u)
    \/ \E u \in Users, t \in ActionTypes : PerformBattleActionRaises(u, t)
    \/ \E u \in Users : BattleUpdateRequest(u)
    \/ BattleUpdateReadRaises

\* A battle with every user a member of its group and a participant.
TermsInit == Init /\ present = Users /\ members = Users /\ participants = Users

TermsSpec == TermsInit /\ [][TermsNext]_vars

\* ------------------------------------------------------------ properties
\* A user whose row exists, who is a member of the battle's group and holds a
\* participant link: the caller the checks of lines 348-363 let through.
Eligible(u) == u \in present /\ verify_group_member(u) /\ HasParticipantLink(u)

\* C3: once every call of a set of attacks has returned, each sent by an
\* eligible participant with a valid damage, and their damage adds up to at
\* least the health the battle was created with, the stored battle has
\* current_health 0, is completed and passed.
C3_EnoughDamageCompletes ==
    (/\ \A c \in Calls : pc[c] = "done" /\ damage[c] >= 1 /\ Eligible(cuser[c])
     /\ SumDamage(Calls) >= MaxHealth) =>
        /\ battle.current_health = 0
        /\ battle.is_completed
        /\ battle.passed = PassedTrue

\* C4: an attack call with a valid body that arrives after is_completed was
\* committed true gets no further than the SELECT of the open battle, fails
\* with the 404 of a closed battle and commits nothing.
C4_ClosedAttackRejected ==
    \A c \in closedAtStart :
        /\ pc[c] \in {"read", "done"}
        /\ pc[c] = "done" => result[c] = "e404"
        /\ c \notin wrote
        /\ c \notin completers

C10_DamageBounded ==
    \A c \in Calls :
        (pc[c] = "done" /\ (damage[c] < 1 \/ damage[c] > PerHitCeiling)) =>
            /\ result[c] = "e422"
            /\ c \notin wrote

\* C11: a step of an attack call whose caller is not a member of the group or
\* has no participant link changes no stored row and publishes nothing, the
\* call gets no further than the membership and participant checks, and it
\* leaves those checks with the 403 answer; with a valid body it is not
\* answered before the handler's SELECTs.
C11_OutsiderRejected ==
    [][\A c \in Calls :
          /\ (/\ pc[c] = "idle" /\ pc'[c] = "done"
              /\ damage'[c] >= 1
              /\ cuser'[c] \notin members \cap participants)
                => result'[c] = "e403"
          /\ (/\ pc[c] \notin {"idle", "done"}
              /\ cuser[c] \notin members \cap participants
              /\ pc'[c] # pc[c])
                => /\ dbVars' = dbVars
                   /\ published' = published
                   /\ pc'[c] \in {"check", "link", "done"}
                   /\ (pc[c] = "check" /\ cuser[c] \notin members) =>
                          (pc'[c] = "done" /\ result'[c] = "e403")
                   /\ pc[c] = "link" => (pc'[c] = "done" /\ result'[c] = "e403")
                   /\ c \notin wrote' /\ c \notin completers']_vars

\* C14: the stored current_health is never below 0 and never above the health
\* the battle was created with.
C14_HealthInRange ==
    /\ 0 <= battle.current_health
    /\ battle.current_health <= MaxHealth

\* A hit larger than the remaining health has been committed.
C14_Witness ==
    /\ battle.current_health = 0
    /\ \E c \in wrote : pc[c] = "done" /\ result[c] = "ok" /\ battle.score > MaxHealth

\* C15: a connection whose token names no user, or names a user who is not a
\* member of the group or has no participant link, never gets past the check
\* it fails: it is closed, with code 1008, by the token check when the token
\* names no user, and it never reaches manager.connect otherwise; it is in no
\* set of the registry and has been sent nothing.
C15_OutsiderNeverSubscribed ==
    \A w \in Conns :
        (wspc[w] # "new" /\ wsuser[w] \notin (present \cap members) \cap participants) =>
            /\ wspc[w] \in {"battle", "member", "link", "closed"}
            /\ wsuser[w] \notin present => wspc[w] = "closed"
            /\ (wspc[w] = "link" => wsuser[w] \in members)
            /\ wspc[w] = "closed" => closecode[w] = PolicyViolation
            /\ w \notin Registered(active_connections)
            /\ inbox[w] = <<>>

\* A member without participant link has been turned away while a participant
\* of the same battle is subscribed.
C15_Witness ==
    /\ \E w \in Conns : /\ wsuser[w] \in (present \cap members) \ participants
                         /\ wspc[w] = "closed" /\ closecode[w] = PolicyViolation
    /\ \E w \in Conns : /\ wspc[w] = "subscribed"
                         /\ w \in Subscribers(active_connections, BattleKey)

\* C19: every broadcast addresses exactly the connections registered under the
\* key when it starts; a send that fails removes that connection, and only
\* it, from the registry and the loop goes on with the rest of the snapshot;
\* a send that succeeds delivers the message and leaves the registry as it is.
C19_SendFailureRemovesOnlyThat ==
    [][\A b \in Conns :
          /\ (wspc[b] = "subscribed" /\ wspc'[b] = "bcast") =>
                 pending'[b] = active_connections[BattleKey]
          /\ (wspc[b] = "bcast" /\ pending'[b] # pending[b]) =>
                 \E t \in pending[b] :
                     /\ pending'[b] = pending[b] \ {t}
                     /\ wspc'[b] = IF pending'[b] = {} THEN "subscribed" ELSE "bcast"
                     /\ IF link[t] = "open"
                        THEN /\ inbox'[t] = Append(inbox[t], ChatMessage(wsuser[b]))
                             /\ active_connections' = active_connections
                        ELSE /\ inbox' = inbox
                             /\ t \notin Registered(active_connections')
                             /\ Registered(active_connections') =
                                    Registered(active_connections) \ {t}]_vars

\* A send to one connection has failed and a broadcast started afterwards has
\* reached the connection that remained.
C19_Witness ==
    \E t \in sendFailed : \E r \in Conns \ {t} :
        /\ inbox[t] = <<>>
        /\ t \notin Registered(active_connections)
        /\ inbox[r] = <<ChatMessage(wsuser[r]), ChatMessage(wsuser[r])>>
        /\ r \in Registered(active_connections)

\* C20: no key of the registry maps to an empty set.
C20_NoEmptyChannel ==
    \A k \in DOMAIN active_connections : active_connections[k] # {}

\* The key is gone after its connections were removed, one by a failed send
\* and one by the handler's disconnect.
C20_Witness ==
    /\ BattleKey \notin DOMAIN active_connections
    /\ sendFailed # {}
    /\ \E w \in Conns \ sendFailed :
          wspc[w] = "closed" /\ closecode[w] = 0 /\ inbox[w] # <<>>

\* C27: an attack of an eligible participant that arrived at an open battle
\* with a damage of at least the battle's health returns success and leaves
\* the battle stored as completed, whatever the battle's reward_xp.
C27_CompletingAttackSucceeds ==
    \A c \in Calls :
        (/\ pc[c] = "done" /\ c \notin closedAtStart
         /\ Eligible(cuser[c]) /\ damage[c] >= MaxHealth) =>
            /\ result[c] = "ok"
            /\ battle.is_completed

\* C24: with connects, disconnects and broadcasts of several handlers
\* interleaving between any two sends, every handler's broadcast delivers its
\* message at most once to a connection and only to connections of the
\* snapshot taken when it started; a connection of the snapshot whose turn is
\* over has received it exactly once unless its send failed; and no handler
\* is ended by a broadcast (a handler ends only on its own disconnect or on a
\* frame that is not a chat_message).
C24_BroadcastExactlyOnce ==
    \A b \in Conns :
        /\ \A t \in Conns :
              /\ got[b][t] <= 1
              /\ got[b][t] = 1 => t \in snapshot[b] \ pending[b]
              /\ t \in snapshot[b] \ pending[b] =>
                    (got[b][t] = 1 \/ t \in sendFailed)
        /\ pending[b] \subseteq snapshot[b]
        /\ (wspc[b] = "closed" /\ closecode[b] = UnsupportedData) =>
               (lastrecv.type # "chat_message" \/ lastrecv.conn # b)

\* Two handlers' broadcasts over the same snapshot have both finished: each
\* reached the connection that stayed exactly once, and the connection that
\* went away in between was removed by a failed send.
C24_Witness ==
    \E b \in Conns : \E t \in Conns \ {b} :
        /\ wspc[b] = "subscribed" /\ snapshot[b] = {b, t}
        /\ got[b][b] = 1 /\ got[b][t] = 0 /\ t \in sendFailed
        /\ snapshot[t] = {b, t} /\ got[t][b] = 1
        /\ pending[t] = {}

\* C21: a join request that arrives after is_completed was committed true
\* ends with the 400 of a completed battle (403 for a caller who is not a
\* member) and inserts nothing; and no step adds a participant link while the
\* stored battle is completed.
C21_NoJoinAfterCompletion ==
    [][/\ \A j \in jlate :
             jpc'[j] = "done" =>
                 jresult'[j] = IF juser[j] \in members THEN "e400closed" ELSE "e403"
       /\ battle.is_completed => participants' \subseteq participants]_vars

\* C22: no user holds more than one participant link of the battle, and a
\* join request of a member who held a link when the request arrived, at a
\* battle that was not completed, ends with the 400 of a caller who already
\* joined.
C22_OneLinkPerUser ==
    /\ \A u \in Users : linkcount[u] <= 1
    /\ \A j \in jhad \ jlate :
          (jpc[j] = "done" /\ juser[j] \in members) =>
              jresult[j] = "e400already"

\* C23: the step in which an award request with a positive amount n gets its
\* success response raises the user's stored xp by exactly n and stores the
\* level of the new total, so that a progress query made right after it
\* reports the old total plus n, which is also the total the response names.
C23_AwardStored ==
    [][\A a \in Awards :
          (apc[a] = "update" /\ apc'[a] = "done" /\ aresult'[a] = "ok") =>
              LET u == auser[a] IN
              /\ ProgressTotalXp(u)' = ProgressTotalXp(u) + axp[a]
              /\ users'[u].level = ProgressLevel(u)'
              /\ aresponse'[a] = ProgressTotalXp(u)']_vars

\* C26: no step of a battle operation (the router's attack and join, the
\* update endpoint of src/main.py, perform_battle_action) changes the
\* battle's reward_xp, reward_skill_points or reward_items.
C26_RewardTermsImmutable ==
    [][/\ reward_xp' = reward_xp
       /\ reward_skill_points' = reward_skill_points
       /\ reward_items' = reward_items]_vars

\* An attack has completed the battle and returned, perform_battle_action,
\* the update endpoint and a join have been answered, and the reward terms
\* are those the battle was created with.
C26_Witness ==
    /\ battle.is_completed
    /\ \E c \in completers : pc[c] = "done"
    /\ lactions > 0 /\ bupc = "done" /\ \E j \in Joins : jpc[j] = "done"
    /\ reward_xp \in RewardXpChoices
    /\ reward_skill_points = RewardSkillPoints
    /\ reward_items = RewardItemCount

\* C30: when a broadcast of the ConnectionManager of src/main.py has ended and
\* no handler connected or disconnected a websocket while it ran, every
\* connection that was in the key's list when it started, is not the sender
\* and accepts sends has been sent the message, whatever sends to other
\* connections failed on the way.
C30_FailureDoesNotSkipOthers ==
    (~liter.active /\ lquiet) =>
        \A i \in 1..Len(lstart) :
            (lstart[i] # liter.sender /\ lws[lstart[i]] = "open") =>
                lstart[i] \in lgot

TypeOK ==
    /\ battle.current_health \in Int
    /\ pc \in [Calls -> {"idle", "read", "check", "link", "begin", "award", "update",
                         "skill", "commit", "refresh", "publish", "done"}]

====
